---- MODULE Spec2Model ----
(***************************************************************************)
(* Model of catawiki_analysis.py: the main execution reads a table of      *)
(* user rows, load_and_process_data derives the two cancellation rates,    *)
(* the linked accounts and the risk category of every row, analyze_data    *)
(* summarises the scored rows and generate_report renders the summary.     *)
(*                                                                         *)
(* A float is modelled by the exact fraction <<n, d>> it rounds: d > 0 is  *)
(* the reduced fraction n/d, <<0,0>> is NaN, <<1,0>> is +inf and <<-1,0>>  *)
(* is -inf.  The counts are small integers, so the comparisons the code    *)
(* makes on the quotients (with 0.5, with 0.25, with each other) give the  *)
(* same answers on the fractions as on the IEEE doubles.                   *)
(***************************************************************************)
EXTENDS Integers, Sequences, FiniteSets, TLC

VARIABLES input, pc, df, linked_accounts, analysis, report

vars == <<input, pc, df, linked_accounts, analysis, report>>

(* ------------------------------ bounds -------------------------------- *)

\* longest input of Spec and SpecRaw
MaxLen == 3
\* largest count of the probe row of SpecRate
MaxCount == 3
\* longest input of SpecTop
MaxTopLen == 12
\* sorts of at most this many rows take every order of their ties
MaxPerm == 3

\* head(10)
TopN == 10

(* ------------------------------ floats -------------------------------- *)

Abs(x) == IF x < 0 THEN -x ELSE x

RECURSIVE Gcd(_, _)
Gcd(a, b) == IF b = 0 THEN a ELSE Gcd(b, a % b)

NaN == <<0, 0>>
PInf == <<1, 0>>
NInf == <<-1, 0>>

IsNaN(r) == r = NaN
IsFinite(r) == r[2] > 0

\* the fraction n/d, d # 0, reduced and with a positive denominator
Rat(n, d) ==
    LET g == Gcd(Abs(n), Abs(d))
        s == IF d < 0 THEN -1 ELSE 1
    IN  <<(s * n) \div g, (s * d) \div g>>

\* numpy's float division of two integer columns: 0/0 is NaN, x/0 is +-inf
Div(n, d) ==
    IF d = 0
    THEN (IF n = 0 THEN NaN ELSE IF n > 0 THEN PInf ELSE NInf)
    ELSE Rat(n, d)

\* a < b on two floats that are not NaN
Less(a, b) ==
    IF a[2] = 0 /\ b[2] = 0 THEN a[1] < b[1] ELSE a[1] * b[2] < b[1] * a[2]

\* r > n/d; every comparison with NaN is False
Gt(r, n, d) == ~IsNaN(r) /\ Less(<<n, d>>, r)

RatAdd(a, b) == Rat(a[1] * b[2] + b[1] * a[2], a[2] * b[2])

RECURSIVE SumFinite(_)
SumFinite(rs) ==
    IF Len(rs) = 0 THEN <<0, 1>>
    ELSE IF IsFinite(Head(rs)) THEN RatAdd(Head(rs), SumFinite(Tail(rs)))
    ELSE SumFinite(Tail(rs))

(* ------------------------ load_and_process_data ----------------------- *)

HighRisk == "High Risk"
MediumRisk == "Medium Risk"
LowRisk == "Low Risk"

\* the two rate columns, on the RangeIndex read_csv gives the frame
RateRow(r, i) ==
    [idx |-> i - 1,
     user_id |-> r.user_id,
     session |-> r.session,
     lots_paid |-> r.lots_paid,
     cancelled_by_buyer |-> r.cancelled_by_buyer,
     lots_sold |-> r.lots_sold,
     cancelled_by_seller |-> r.cancelled_by_seller,
     buyer_cancellation_rate |->
         Div(r.cancelled_by_buyer, r.lots_paid + r.cancelled_by_buyer),
     seller_cancellation_rate |->
         Div(r.cancelled_by_seller, r.lots_sold + r.cancelled_by_seller)]

WithRates(rows) == [i \in 1..Len(rows) |-> RateRow(rows[i], i)]

\* len(x) of the group of one 'Cookie Session ID'
GroupSize(rows, s) == Cardinality({i \in 1..Len(rows) : rows[i].session = s})

\* a filter that asks for more than two rows in the group
GroupKeptMutant(size) == size > 2

\* lambda x: len(x) > 1
GroupKept(size) == size > 1

\* df.groupby('Cookie Session ID').filter(...): the rows of the kept groups,
\* in the order and under the index labels they have in df
LinkedFilter(rows) ==
    SelectSeq(rows, LAMBDA r : GroupKept(GroupSize(rows, r.session)))

InIndex(label, frame) == \E k \in 1..Len(frame) : frame[k].idx = label

\* r >= n/d
Ge(r, n, d) == ~IsNaN(r) /\ ~Less(r, <<n, d>>)

\* the thresholds tested with >= in place of >
categorize_risk_mutant(row, linked) ==
    IF InIndex(row.idx, linked) THEN HighRisk
    ELSE IF \/ Ge(row.buyer_cancellation_rate, 1, 2)
            \/ Ge(row.seller_cancellation_rate, 1, 2) THEN HighRisk
    ELSE IF \/ Ge(row.buyer_cancellation_rate, 1, 4)
            \/ Ge(row.seller_cancellation_rate, 1, 4) THEN MediumRisk
    ELSE LowRisk

categorize_risk(row, linked) ==
    IF InIndex(row.idx, linked) THEN HighRisk
    ELSE IF \/ Gt(row.buyer_cancellation_rate, 1, 2)
            \/ Gt(row.seller_cancellation_rate, 1, 2) THEN HighRisk
    ELSE IF \/ Gt(row.buyer_cancellation_rate, 1, 4)
            \/ Gt(row.seller_cancellation_rate, 1, 4) THEN MediumRisk
    ELSE LowRisk

\* a frame that keeps the linked rows only
ApplyRiskMutant(rows, linked) ==
    [i \in 1..Len(linked) |->
        [risk_category |-> categorize_risk(linked[i], linked)] @@ linked[i]]

\* df.apply(categorize_risk, axis=1) on a frame that has rows
ApplyRisk(rows, linked) ==
    [i \in 1..Len(rows) |->
        [risk_category |-> categorize_risk(rows[i], linked)] @@ rows[i]]

\* What line 28 does with a frame: with rows it assigns the column.  On a
\* frame without rows DataFrame.apply does not call the function per row; it
\* gives back an empty Series (the column is assigned) or a copy of the
\* frame (the assignment of a frame to one column raises ValueError),
\* depending on the pandas release.
ApplyOutcomes(rows) == IF Len(rows) = 0 THEN {"assigned", "ValueError"} ELSE {"assigned"}

(* ----------------------------- analyze_data --------------------------- *)

\* Series.value_counts().to_dict(): one key per category that occurs
value_counts(rows) ==
    [c \in {rows[i].risk_category : i \in 1..Len(rows)} |->
        Cardinality({i \in 1..Len(rows) : rows[i].risk_category = c})]

\* the number of linked rows
nunique_mutant(frame) == Len(frame)

\* linked_accounts['user_id'].nunique()
nunique(frame) == Cardinality({frame[k].user_id : k \in 1..Len(frame)})

\* a mean that counts a NaN as 0
mean_mutant(rs) ==
    IF Len(rs) = 0 THEN NaN
    ELSE LET s == SumFinite(rs) IN Rat(s[1], s[2] * Len(rs))

\* Series.mean(): NaN is skipped; no value left gives NaN
mean(rs) ==
    LET n == Cardinality({i \in 1..Len(rs) : ~IsNaN(rs[i])})
        hasP == \E i \in 1..Len(rs) : rs[i] = PInf
        hasN == \E i \in 1..Len(rs) : rs[i] = NInf
        s == SumFinite(rs)
    IN  IF n = 0 THEN NaN
        ELSE IF hasP /\ hasN THEN NaN
        ELSE IF hasP THEN PInf
        ELSE IF hasN THEN NInf
        ELSE Rat(s[1], s[2] * n)

\* the two rate columns of df
BuyerRates(rows) == [i \in 1..Len(rows) |-> rows[i].buyer_cancellation_rate]
SellerRates(rows) == [i \in 1..Len(rows) |-> rows[i].seller_cancellation_rate]

both_activities(rows) ==
    Cardinality({i \in 1..Len(rows) : rows[i].lots_paid > 0 /\ rows[i].lots_sold > 0})
only_buyers(rows) ==
    Cardinality({i \in 1..Len(rows) : rows[i].lots_paid > 0 /\ rows[i].lots_sold = 0})
only_sellers(rows) ==
    Cardinality({i \in 1..Len(rows) : rows[i].lots_paid = 0 /\ rows[i].lots_sold > 0})

\* a goes strictly before b in a descending sort with NaN last
Before(a, b) ==
    /\ ~IsNaN(a.buyer_cancellation_rate)
    /\ \/ IsNaN(b.buyer_cancellation_rate)
       \/ Less(b.buyer_cancellation_rate, a.buyer_cancellation_rate)

RECURSIVE InsertDesc(_, _)
InsertDesc(x, s) ==
    IF Len(s) = 0 THEN <<x>>
    ELSE IF Before(Head(s), x) THEN <<Head(s)>> \o InsertDesc(x, Tail(s))
    ELSE <<x>> \o s

\* the descending order that keeps ties as they come
RECURSIVE StableSortDesc(_)
StableSortDesc(rows) ==
    IF Len(rows) = 0 THEN <<>>
    ELSE InsertDesc(Head(rows), StableSortDesc(Tail(rows)))

Permute(s, p) == [i \in 1..Len(s) |-> s[p[i]]]

AllPerms ==
    [n \in 0..MaxPerm |->
        {p \in [1..n -> 1..n] : \A i, j \in 1..n : p[i] = p[j] => i = j}]

\* The orders in which an argsort may meet tied keys: every order for a
\* short column, the given and the reversed order for a long one.
TieOrders(n) ==
    IF n <= MaxPerm THEN AllPerms[n]
    ELSE {[i \in 1..n |-> i], [i \in 1..n |-> n + 1 - i]}

\* sort_values('buyer_cancellation_rate', ascending=False) with the default
\* kind='quicksort' and na_position='last': the rows whose key is not NaN
\* in descending order of the key, keys that are equal in an order the sort
\* does not promise, then the NaN rows as they come.
SortOutcomes(rows) ==
    LET keyed == SelectSeq(rows, LAMBDA r : ~IsNaN(r.buyer_cancellation_rate))
        nans == SelectSeq(rows, LAMBDA r : IsNaN(r.buyer_cancellation_rate))
    IN  {StableSortDesc(Permute(keyed, p)) \o nans : p \in TieOrders(Len(keyed))}

\* the seven display columns of line 53; the index stays on the frame
Display(r) ==
    [idx |-> r.idx,
     user_id |-> r.user_id,
     buyer_cancellation_rate |-> r.buyer_cancellation_rate,
     seller_cancellation_rate |-> r.seller_cancellation_rate,
     cancelled_by_buyer |-> r.cancelled_by_buyer,
     lots_paid |-> r.lots_paid,
     cancelled_by_seller |-> r.cancelled_by_seller,
     lots_sold |-> r.lots_sold]

\* no cut
head_mutant(s, n) == s

\* .head(10)
head(s, n) == IF Len(s) <= n THEN s ELSE SubSeq(s, 1, n)

HighRows(rows) == SelectSeq(rows, LAMBDA r : r.risk_category = HighRisk)

analyze_data(rows, linked, sorted) ==
    [risk_segmentation |-> value_counts(rows),
     linked_accounts |-> nunique(linked),
     avg_buyer_cancellation_rate |-> mean(BuyerRates(rows)),
     avg_seller_cancellation_rate |-> mean(SellerRates(rows)),
     both_activities |-> both_activities(rows),
     only_buyers |-> only_buyers(rows),
     only_sellers |-> only_sellers(rows),
     top_10_high_risk |-> head([k \in 1..Len(sorted) |-> Display(sorted[k])], TopN)]

NoAnalysis ==
    [risk_segmentation |-> <<>>,
     linked_accounts |-> 0,
     avg_buyer_cancellation_rate |-> NaN,
     avg_seller_cancellation_rate |-> NaN,
     both_activities |-> 0,
     only_buyers |-> 0,
     only_sellers |-> 0,
     top_10_high_risk |-> <<>>]

(* ---------------------------- generate_report ------------------------- *)

\* n/d, d > 0, rounded to the nearest integer, halves to even
RoundHalfEven(n, d) ==
    LET q == n \div d
        r == n % d
    IN  IF 2 * r < d THEN q
        ELSE IF 2 * r > d THEN q + 1
        ELSE IF q % 2 = 0 THEN q ELSE q + 1

\* f"{count/1000*100:.1f}": the share of 1000 users, in tenths of a percent
ShareOf1000(count) == RoundHalfEven(count * 100 * 10, 1000)

\* f"{x:.2%}": hundredths of a percent, or the text of a float that is no number
FormatPercent(r) ==
    IF IsNaN(r) THEN [text |-> "nan%", hundredths |-> 0]
    ELSE IF r = PInf THEN [text |-> "inf%", hundredths |-> 0]
    ELSE IF r = NInf THEN [text |-> "-inf%", hundredths |-> 0]
    ELSE [text |-> "number", hundredths |-> RoundHalfEven(r[1] * 100 * 100, r[2])]

generate_report(a) ==
    [risk_segmentation |->
         [c \in DOMAIN a.risk_segmentation |->
             <<a.risk_segmentation[c], ShareOf1000(a.risk_segmentation[c])>>],
     linked_accounts |-> a.linked_accounts,
     avg_buyer_cancellation_rate |-> FormatPercent(a.avg_buyer_cancellation_rate),
     avg_seller_cancellation_rate |-> FormatPercent(a.avg_seller_cancellation_rate),
     both_activities |-> a.both_activities,
     only_buyers |-> a.only_buyers,
     only_sellers |-> a.only_sellers,
     table |-> a.top_10_high_risk]

NoReport == <<>>

(* ---------------------------- main execution -------------------------- *)

\* df, linked_accounts = load_and_process_data(file_path)
Load ==
    /\ pc = "start"
    /\ LET rated == WithRates(input)
           linked == LinkedFilter(rated)
       IN  \E outcome \in ApplyOutcomes(rated) :
              IF outcome = "ValueError"
              THEN /\ pc' = "fault"
                   /\ UNCHANGED <<df, linked_accounts>>
              ELSE /\ df' = ApplyRisk(rated, linked)
                   /\ linked_accounts' = linked
                   /\ pc' = "loaded"
    /\ UNCHANGED <<input, analysis, report>>

\* analysis_results = analyze_data(df, linked_accounts)
Analyze ==
    /\ pc = "loaded"
    /\ \E sorted \in SortOutcomes(HighRows(df)) :
          analysis' = analyze_data(df, linked_accounts, sorted)
    /\ pc' = "analyzed"
    /\ UNCHANGED <<input, df, linked_accounts, report>>

\* report = generate_report(analysis_results), written to the report file
Report ==
    /\ pc = "analyzed"
    /\ report' = generate_report(analysis)
    /\ pc' = "written"
    /\ UNCHANGED <<input, df, linked_accounts, analysis>>

Next == Load \/ Analyze \/ Report

Start ==
    /\ pc = "start"
    /\ df = <<>>
    /\ linked_accounts = <<>>
    /\ analysis = NoAnalysis
    /\ report = NoReport

(* ------------------------------- inputs ------------------------------- *)

Row(u, s, c) ==
    [user_id |-> u, session |-> s,
     lots_paid |-> c[1], cancelled_by_buyer |-> c[2],
     lots_sold |-> c[3], cancelled_by_seller |-> c[4]]

SeqsUpTo(S, n) == UNION {[1..k -> S] : k \in 0..n}

Users == {"u1", "u2"}
Sessions == {1, 2}

\* <<paid, cancelled by buyer, sold, cancelled by seller>>: no activity;
\* a buyer at rate 1/2; a buyer at rate 1/3 who sells at rate 2/3
Profiles == {<<0, 0, 0, 0>>, <<1, 1, 0, 0>>, <<2, 1, 1, 2>>}

Rows == {Row(u, s, c) : u \in Users, s \in Sessions, c \in Profiles}

\* every table of at most MaxLen rows over two users, two sessions and the
\* three profiles
Init ==
    /\ input \in SeqsUpTo(Rows, MaxLen)
    /\ Start

Spec == Init /\ [][Next]_vars

\* one row of every combination of counts up to MaxCount, alone or followed
\* by a second row in the same or in another session
ProbeRows ==
    {Row("u1", 1, <<p, bc, so, sc>>) :
        p \in 0..MaxCount, bc \in 0..MaxCount, so \in 0..MaxCount, sc \in 0..MaxCount}
CompanionRows == {Row("u2", s, <<1, 0, 1, 0>>) : s \in Sessions}

InitRate ==
    /\ input \in {<<r>> \o t : r \in ProbeRows, t \in SeqsUpTo(CompanionRows, 1)}
    /\ Start

SpecRate == InitRate /\ [][Next]_vars

\* rows of four kinds: buyer rate 1; no buyer rate and seller rate 1; buyer
\* rate 2/3; buyer rate 0
TopKinds == <<<<0, 1, 0, 0>>, <<0, 0, 0, 1>>, <<1, 2, 0, 0>>, <<1, 0, 0, 0>>>>

\* the row at place i: one of two kinds, in a session of its own or in the
\* session 0 that all rows of the second choice share
TopRow(i, b) ==
    Row(IF i % 2 = 0 THEN "u1" ELSE "u2",
        IF b = 0 THEN i ELSE 0,
        TopKinds[((i + b) % 4) + 1])

InitTop ==
    /\ input \in UNION {{[i \in 1..n |-> TopRow(i, bits[i])] : bits \in [1..n -> {0, 1}]} :
                           n \in 0..MaxTopLen}
    /\ Start

SpecTop == InitTop /\ [][Next]_vars

\* tables in which a count of the buyer side may be negative
RawRows ==
    {Row("u1", s, <<p, bc, 1, 0>>) : s \in Sessions, p \in -1..1, bc \in -1..1}

InitRaw ==
    /\ input \in SeqsUpTo(RawRows, 2)
    /\ Start

SpecRaw == InitRaw /\ [][Next]_vars

(* ------------------------------- claims ------------------------------- *)

Scored == pc \in {"loaded", "analyzed", "written"}
Summarised == pc \in {"analyzed", "written"}

\* another row of the input has the session id of row i
SharesSession(i) ==
    \E j \in 1..Len(input) : j # i /\ input[j].session = input[i].session

\* cancelled / (kept + cancelled) is defined and exceeds n/d, on the counts
RateExceeds(cancelled, kept, n, d) ==
    /\ kept + cancelled > 0
    /\ d * cancelled > n * (kept + cancelled)

ExpectedTier(i) ==
    LET r == input[i]
        over(n, d) ==
            \/ RateExceeds(r.cancelled_by_buyer, r.lots_paid, n, d)
            \/ RateExceeds(r.cancelled_by_seller, r.lots_sold, n, d)
    IN  IF SharesSession(i) THEN HighRisk
        ELSE IF over(1, 2) THEN HighRisk
        ELSE IF over(1, 4) THEN MediumRisk
        ELSE LowRisk

\* C1: every scored row has the tier of the first matching rule: linked ->
\* High; a defined rate above 1/2 -> High; a defined rate above 1/4 ->
\* Medium; otherwise Low.  A rate with a zero denominator passes no
\* threshold.
C1_TierRule ==
    Scored =>
        /\ Len(df) = Len(input)
        /\ \A i \in 1..Len(df) : df[i].risk_category = ExpectedTier(i)

\* a linked row with both rates 0.0 is High, beside a row that is exactly at
\* a threshold or has an undefined buyer rate
C1_Witness ==
    /\ pc = "loaded"
    /\ Len(df) = 2
    /\ df[2].buyer_cancellation_rate = <<0, 1>>
    /\ df[2].seller_cancellation_rate = <<0, 1>>
    /\ SharesSession(2)
    /\ df[2].risk_category = HighRisk
    /\ IsNaN(df[1].buyer_cancellation_rate)

\* C2: a row is in linked_accounts, and then High, exactly if another row
\* of the whole input has its session id.
C2_LinkedIff ==
    Scored =>
        \A i \in 1..Len(input) :
            /\ InIndex(i - 1, linked_accounts) <=> SharesSession(i)
            /\ SharesSession(i) => df[i].risk_category = HighRisk

C2_Witness ==
    /\ pc = "loaded"
    /\ Len(input) = 3
    /\ Len(linked_accounts) = 2
    /\ InIndex(0, linked_accounts)
    /\ InIndex(2, linked_accounts)
    /\ df[2].risk_category # HighRisk

\* C3: in the top-10 list two rows with the same buyer rate stand in the
\* order they have in the input.
C3_StableTies ==
    Summarised =>
        LET top == analysis.top_10_high_risk
        IN  \A k, l \in 1..Len(top) :
                (/\ k < l
                 /\ ~IsNaN(top[k].buyer_cancellation_rate)
                 /\ top[k].buyer_cancellation_rate = top[l].buyer_cancellation_rate)
                => top[k].idx < top[l].idx

HighIdx == {i \in 1..Len(df) : df[i].risk_category = HighRisk}

Min(a, b) == IF a <= b THEN a ELSE b

\* a >= b on two rates of valid rows that are not NaN
RateGeq(a, b) == a[1] * b[2] >= b[1] * a[2]

\* C4: the top-10 list holds High rows only, each once, min(10, number of
\* High rows) of them, in non-increasing order of the buyer rate with the
\* undefined rates last, and no High row left out has a defined rate while
\* the list holds an undefined or a smaller one.
C4_TopTen ==
    Summarised =>
        LET top == analysis.top_10_high_risk
            listed == {top[k].idx + 1 : k \in 1..Len(top)}
        IN  /\ listed \subseteq HighIdx
            /\ Len(top) = Min(10, Cardinality(HighIdx))
            /\ Cardinality(listed) = Len(top)
            /\ \A k \in 1..Len(top) :
                  LET r == df[top[k].idx + 1]
                  IN  /\ top[k].user_id = r.user_id
                      /\ top[k].buyer_cancellation_rate = r.buyer_cancellation_rate
            /\ \A k, l \in 1..Len(top) :
                  k < l =>
                      \/ IsNaN(top[l].buyer_cancellation_rate)
                      \/ /\ ~IsNaN(top[k].buyer_cancellation_rate)
                         /\ RateGeq(top[k].buyer_cancellation_rate,
                                    top[l].buyer_cancellation_rate)
            /\ \A i \in HighIdx \ listed : \A k \in 1..Len(top) :
                  \/ IsNaN(df[i].buyer_cancellation_rate)
                  \/ /\ ~IsNaN(top[k].buyer_cancellation_rate)
                     /\ RateGeq(top[k].buyer_cancellation_rate,
                                df[i].buyer_cancellation_rate)

\* more than ten High rows beside a row that is not High: the list is cut
\* at ten, holds two different rates and leaves a High row with a defined
\* rate out
C4_Witness ==
    /\ pc = "analyzed"
    /\ Cardinality(HighIdx) > 10
    /\ Cardinality(HighIdx) < Len(df)
    /\ Len(analysis.top_10_high_risk) = 10
    /\ analysis.top_10_high_risk[1].buyer_cancellation_rate
           # analysis.top_10_high_risk[10].buyer_cancellation_rate
    /\ \E i \in HighIdx :
          /\ \A k \in 1..10 : analysis.top_10_high_risk[k].idx # i - 1
          /\ ~IsNaN(df[i].buyer_cancellation_rate)

Tiers == {HighRisk, MediumRisk, LowRisk}

\* C5: on an input without rows the run raises nothing and the summary has
\* every count at zero and both means undefined.
C5_EmptyInput ==
    Len(input) = 0 =>
        /\ pc # "fault"
        /\ Summarised =>
              /\ \A t \in Tiers :
                    /\ t \in DOMAIN analysis.risk_segmentation
                    /\ analysis.risk_segmentation[t] = 0
              /\ analysis.linked_accounts = 0
              /\ analysis.both_activities = 0
              /\ analysis.only_buyers = 0
              /\ analysis.only_sellers = 0
              /\ IsNaN(analysis.avg_buyer_cancellation_rate)
              /\ IsNaN(analysis.avg_seller_cancellation_rate)

Malformed(r) ==
    \/ r.lots_paid < 0
    \/ r.cancelled_by_buyer < 0
    \/ r.lots_sold < 0
    \/ r.cancelled_by_seller < 0

\* C6: an input with a malformed count is never scored, summarised or
\* reported.
C6_MalformedHalts ==
    (\E i \in 1..Len(input) : Malformed(input[i])) => pc \in {"start", "fault"}

LinkedUsers == {input[i].user_id : i \in {j \in 1..Len(input) : SharesSession(j)}}

\* C7: the linked count of the summary is the number of distinct user ids
\* among the linked rows.
C7_LinkedCount ==
    Summarised => analysis.linked_accounts = Cardinality(LinkedUsers)

\* three linked rows of two users
C7_Witness ==
    /\ pc = "analyzed"
    /\ Len(linked_accounts) = 3
    /\ analysis.linked_accounts = 2

\* <<cancelled, kept + cancelled>> of every row, on either side
BuyerCounts ==
    [i \in 1..Len(input) |->
        <<input[i].cancelled_by_buyer,
          input[i].lots_paid + input[i].cancelled_by_buyer>>]
SellerCounts ==
    [i \in 1..Len(input) |->
        <<input[i].cancelled_by_seller,
          input[i].lots_sold + input[i].cancelled_by_seller>>]

Defined(cs) == {i \in 1..Len(cs) : cs[i][2] > 0}

RECURSIVE DenProduct(_)
DenProduct(cs) ==
    IF Len(cs) = 0 THEN 1
    ELSE (IF Head(cs)[2] > 0 THEN Head(cs)[2] ELSE 1) * DenProduct(Tail(cs))

\* the sum of the defined quotients, times the common denominator c
RECURSIVE ScaledSum(_, _)
ScaledSum(cs, c) ==
    IF Len(cs) = 0 THEN 0
    ELSE (IF Head(cs)[2] > 0 THEN Head(cs)[1] * (c \div Head(cs)[2]) ELSE 0)
             + ScaledSum(Tail(cs), c)

\* m is the mean of the defined quotients of cs, NaN if there is none
IsMeanOf(m, cs) ==
    IF Defined(cs) = {} THEN IsNaN(m)
    ELSE /\ m[2] > 0
         /\ m[1] * DenProduct(cs) * Cardinality(Defined(cs))
                = ScaledSum(cs, DenProduct(cs)) * m[2]

\* C8: each mean of the summary is the mean over the rows whose rate is
\* defined, and NaN when no row has the rate defined.
C8_MeanOverDefined ==
    Summarised =>
        /\ IsMeanOf(analysis.avg_buyer_cancellation_rate, BuyerCounts)
        /\ IsMeanOf(analysis.avg_seller_cancellation_rate, SellerCounts)

\* two buyers at 1/2 and 1/3 beside a row without buyer activity: 5/12, and
\* one seller among rows without seller activity
C8_Witness ==
    /\ pc = "analyzed"
    /\ Len(df) = 3
    /\ \E i \in 1..3 : IsNaN(df[i].buyer_cancellation_rate)
    /\ analysis.avg_buyer_cancellation_rate = <<5, 12>>
    /\ analysis.avg_seller_cancellation_rate = <<2, 3>>

\* C9: the summary carries a neither count, and the four buckets add up to
\* the number of rows.
C9_BucketsPartition ==
    Summarised =>
        /\ "neither" \in DOMAIN analysis
        /\ analysis.both_activities + analysis.only_buyers
               + analysis.only_sellers + analysis.neither = Len(input)

\* C10: the scored rows are the input rows, one for one and in order.
C10_OneToOne ==
    Scored =>
        /\ Len(df) = Len(input)
        /\ \A i \in 1..Len(input) :
              /\ df[i].user_id = input[i].user_id
              /\ df[i].lots_paid = input[i].lots_paid
              /\ df[i].cancelled_by_buyer = input[i].cancelled_by_buyer
              /\ df[i].lots_sold = input[i].lots_sold
              /\ df[i].cancelled_by_seller = input[i].cancelled_by_seller

C10_Witness ==
    /\ pc = "loaded"
    /\ Len(df) = 3
    /\ df[1].user_id # df[2].user_id
    /\ df[1].lots_paid # df[3].lots_paid

====
